---- MODULE Spec2Model ----
(***************************************************************************)
(* Heart-Disease-Predictor: the trainer script (src/model.py) and the      *)
(* predictor service (src/app.py).                                         *)
(*                                                                         *)
(* The trainer is a linear script: load heart.csv, map the label and the   *)
(* feature columns onto their canonical names, encode the string columns,  *)
(* select the feature columns, fit, save the artifact.  The predictor      *)
(* loads the artifact at import time and then answers /predict requests.   *)
(*                                                                         *)
(* Text is modelled as TLA+ strings.  A cell value of a DataFrame is a     *)
(* record [k, n, s]: k is the Python type ("int", "float", "nan", "str",   *)
(* "bool"), n the number in tenths (so 2.5 is 25), s the text of a str.    *)
(***************************************************************************)
EXTENDS Integers, Sequences, FiniteSets, TLC

VARIABLES
    csvFile,            \* heart.csv on disk: [exists, cols]
    pklFile,            \* heart_disease_model.pkl on disk
    sklearnAllowsNaN,   \* whether the installed forest accepts NaN at predict
    pc,                 \* position of the trainer script
    exit_status,        \* the trainer's exit status (-1 while running)
    data,               \* model.py: data (a DataFrame, a sequence of columns)
    actual_target,      \* model.py: actual_target
    final_features,     \* model.py: final_features
    missing_features,   \* model.py: missing_features
    string_cols,        \* model.py: string_cols
    X,                  \* model.py: X (columns) with the kept row labels
    trained,            \* model.py: model (the fitted classifier)
    app,                \* position of the predictor process
    app_exit,           \* the predictor's exit status (-1 while running)
    model,              \* app.py: model
    TRAINING_FEATURES,  \* app.py: TRAINING_FEATURES
    form_data,          \* app.py: form_data of the last request
    input_array,        \* app.py: input_array of the last request
    response            \* what the last request rendered

vars == << csvFile, pklFile, sklearnAllowsNaN, pc, exit_status, data,
           actual_target, final_features, missing_features, string_cols, X,
           trained, app, app_exit, model, TRAINING_FEATURES, form_data,
           input_array, response >>

trainerVars == << pc, exit_status, data, actual_target, final_features,
                  missing_features, string_cols, X, trained >>

appVars == << app, app_exit, model, TRAINING_FEATURES, form_data,
              input_array, response >>

-----------------------------------------------------------------------------
(* Bounds of the model *)

MaxRows == 3            \* rows of heart.csv
MaxCode == 3            \* largest whole number written in a cell or a field
MaxHeaderEdits == 2     \* header deviations from the canonical header
MaxOddCols == 1         \* columns of heart.csv whose cells are not plain codes

-----------------------------------------------------------------------------
(* Sequences *)

Range(s) == { s[i] : i \in DOMAIN s }

Contains(s, x) == \E i \in DOMAIN s : s[i] = x

IndexOf(s, x) == IF Contains(s, x) THEN CHOOSE i \in DOMAIN s : s[i] = x /\ \A j \in 1..(i-1) : s[j] # x ELSE 0

RECURSIVE Concat(_)
Concat(ss) == IF ss = << >> THEN << >> ELSE Head(ss) \o Concat(Tail(ss))

RemoveAt(s, i) == SubSeq(s, 1, i-1) \o SubSeq(s, i+1, Len(s))

-----------------------------------------------------------------------------
(* Values and their text *)

Digits == << "0", "1", "2", "3", "4", "5", "6", "7", "8", "9" >>

RECURSIVE NatToStr(_)
NatToStr(n) == IF n < 10 THEN Digits[n + 1] ELSE NatToStr(n \div 10) \o Digits[(n % 10) + 1]

NaN == [k |-> "nan", n |-> 0, s |-> ""]
IntV(i) == [k |-> "int", n |-> 10 * i, s |-> ""]
FloatV(tenths) == [k |-> "float", n |-> tenths, s |-> ""]
StrV(t) == [k |-> "str", n |-> 0, s |-> t]
BoolV(b) == [k |-> "bool", n |-> IF b THEN 10 ELSE 0, s |-> ""]

IsNumber(v) == v.k \in {"int", "float", "bool"}
IsNull(v) == v.k = "nan"

\* Python's str() of a value, as astype(str) and get_dummies' column names use it
PyStr(v) ==
    CASE v.k = "int" -> NatToStr(v.n \div 10)
      [] v.k = "float" -> NatToStr(v.n \div 10) \o "." \o NatToStr(v.n % 10)
      [] v.k = "nan" -> "nan"
      [] v.k = "bool" -> IF v.n = 10 THEN "True" ELSE "False"
      [] OTHER -> v.s

\* The numerals of the model's alphabet: whole numbers 0..MaxCode, and the same
\* with one decimal digit.  Any other text is not a number.
IsIntText(t) == \E i \in 0..MaxCode : t = NatToStr(i)

IsFloatText(t) == \E i \in 0..MaxCode, d \in 0..9 : t = NatToStr(i) \o "." \o NatToStr(d)

IntTextValue(t) == CHOOSE i \in 0..MaxCode : t = NatToStr(i)

FloatTextTenths(t) == CHOOSE n \in 0..(10 * MaxCode + 9) : t = NatToStr(n \div 10) \o "." \o NatToStr(n % 10)

\* pd.to_numeric(series, errors='coerce') on a one-cell series holding text t
\* (or holding NaN, when the field was absent)
ToNumeric(v) ==
    IF v.k # "str" THEN v
    ELSE IF IsIntText(v.s) THEN IntV(IntTextValue(v.s))
    ELSE IF IsFloatText(v.s) THEN FloatV(FloatTextTenths(v.s))
    ELSE NaN

\* The non-numeric texts of the alphabet in Python's (code point) order
WordOrder == << "?", "F", "Female", "M", "Male", "a", "abc", "b" >>

TextRank(t) == IF IsIntText(t) THEN IntTextValue(t) ELSE 100 + IndexOf(WordOrder, t)

\* The order in which get_dummies lists the levels of a column
LevelLess(a, b) ==
    IF IsNumber(a) /\ IsNumber(b) THEN a.n < b.n
    ELSE IF IsNumber(a) THEN TRUE
    ELSE IF IsNumber(b) THEN FALSE
    ELSE TextRank(a.s) < TextRank(b.s)

RECURSIVE SortLevels(_)
SortLevels(S) ==
    IF S = {} THEN << >>
    ELSE LET m == CHOOSE x \in S : \A z \in S \ {x} : LevelLess(x, z)
         IN << m >> \o SortLevels(S \ {m})

\* str.startswith(prefix) for the column names of the model: a name is a source
\* column name or <column>_<level text>
NameTails == { NatToStr(i) : i \in 0..MaxCode } \cup Range(WordOrder) \cup {"nan", "True", "False", "extra"}
               \cup { NatToStr(i) \o "." \o NatToStr(d) : i \in 0..MaxCode, d \in 0..9 }

StartsWith(name, prefix) == \E t \in NameTails : name = prefix \o t

-----------------------------------------------------------------------------
(* src/model.py: constants *)

EXPECTED_FEATURES == << "age", "sex", "cp", "trestbps", "chol", "fbs", "restecg",
                        "thalach", "exang", "oldpeak", "slope", "ca", "thal" >>

TARGET_FEATURE == "target"

\* COL_MAPPING.get(name, [])
COL_MAPPING(name) ==
    CASE name = "thalach" -> << "thalachh", "max_hr", "max_heart_rate", "thalch" >>
      [] name = "trestbps" -> << "bp", "resting_bp", "blood_pressure" >>
      [] name = "chol" -> << "cholesterol", "serum_chol" >>
      [] name = "cp" -> << "chest_pain_type" >>
      [] name = "target" -> << "output", "num", "diagnosis" >>
      [] OTHER -> << >>

-----------------------------------------------------------------------------
(* DataFrames: a sequence of columns [name, origin, dtype, cells].  origin is *)
(* "" for a column read from the file and, for an indicator column, the name *)
(* of the column get_dummies made it of.                                     *)

Names(df) == [i \in DOMAIN df |-> df[i].name]

HasColumn(df, name) == \E i \in DOMAIN df : df[i].name = name

Column(df, name) == df[CHOOSE i \in DOMAIN df : df[i].name = name]

NRows(df) == IF df = << >> THEN 0 ELSE Len(df[1].cells)

\* pd.read_csv's type inference for one column of cell texts
ReadColumn(raw) ==
    LET texts == raw.cells
        allInt == \A r \in DOMAIN texts : IsIntText(texts[r])
        allNum == \A r \in DOMAIN texts : IsIntText(texts[r]) \/ IsFloatText(texts[r]) \/ texts[r] = ""
    IN [name |-> raw.name, origin |-> "",
        dtype |-> IF allInt THEN "int64" ELSE IF allNum THEN "float64" ELSE "object",
        cells |-> [r \in DOMAIN texts |->
                     IF texts[r] = "" THEN NaN
                     ELSE IF allInt THEN IntV(IntTextValue(texts[r]))
                     ELSE IF allNum THEN FloatV(ToNumeric(StrV(texts[r])).n)
                     ELSE StrV(texts[r])]]

ReadCsv(cols) == [i \in DOMAIN cols |-> ReadColumn(cols[i])]


\* a rename that drops the column and adds it again under the new name
RenameMovingToEnd(df, old, new) ==
    SelectSeq(df, LAMBDA c : c.name # old)
    \o [i \in DOMAIN SelectSeq(df, LAMBDA c : c.name = old) |->
          [SelectSeq(df, LAMBDA c : c.name = old)[i] EXCEPT !.name = new]]

\* data.rename(columns={old: new}): the column keeps its position and cells
Rename(df, old, new) == [i \in DOMAIN df |-> IF df[i].name = old THEN [df[i] EXCEPT !.name = new] ELSE df[i]]

-----------------------------------------------------------------------------
(* src/model.py 3a, 3b: mapping the columns onto the canonical names *)


\* an alias search without the break: the last alias present wins
RECURSIVE LastPresentAlias(_, _)
LastPresentAlias(aliases, df) ==
    IF aliases = << >> THEN ""
    ELSE IF HasColumn(df, aliases[Len(aliases)]) THEN aliases[Len(aliases)]
    ELSE LastPresentAlias(SubSeq(aliases, 1, Len(aliases) - 1), df)

\* the first alias, in alias-table order, that is a column of df ("" when none)
RECURSIVE FirstPresentAlias(_, _)
FirstPresentAlias(aliases, df) ==
    IF aliases = << >> THEN ""
    ELSE IF HasColumn(df, Head(aliases)) THEN Head(aliases)
    ELSE FirstPresentAlias(Tail(aliases), df)

\* lines 38-45: actual_target ("" stands for None)
FindTarget(df) ==
    IF HasColumn(df, TARGET_FEATURE) THEN TARGET_FEATURE
    ELSE FirstPresentAlias(COL_MAPPING(TARGET_FEATURE), df)

\* lines 59-72: the loop over EXPECTED_FEATURES, from its i-th iteration on
RECURSIVE MapFeatureColumns(_, _, _, _)
MapFeatureColumns(i, df, final, missing) ==
    IF i > Len(EXPECTED_FEATURES)
    THEN [data |-> df, final_features |-> final, missing_features |-> missing]
    ELSE LET expected_col == EXPECTED_FEATURES[i]
             alt_name == FirstPresentAlias(COL_MAPPING(expected_col), df)
         IN IF HasColumn(df, expected_col)
            THEN MapFeatureColumns(i + 1, df, Append(final, expected_col), missing)
            ELSE IF alt_name # ""
            THEN MapFeatureColumns(i + 1, Rename(df, alt_name, expected_col), Append(final, expected_col), missing)
            ELSE MapFeatureColumns(i + 1, df, final, Append(missing, expected_col))

-----------------------------------------------------------------------------
(* src/model.py 4: cleaning and encoding *)

\* data.select_dtypes(include=['object']).columns
ObjectColumns(df) == SelectSeq(Names(df), LAMBDA nm : Column(df, nm).dtype = "object")

\* line 90: data['sex'].replace({'Male': 1, 'Female': 0, 'M': 1, 'F': 0})
ReplaceSexCell(v) ==
    IF v.k = "str" /\ v.s \in {"Male", "M"} THEN IntV(1)
    ELSE IF v.k = "str" /\ v.s \in {"Female", "F"} THEN IntV(0)
    ELSE v

ReplaceSex(df) ==
    [i \in DOMAIN df |->
        IF df[i].name = "sex"
        THEN [df[i] EXCEPT !.cells = [r \in DOMAIN df[i].cells |-> ReplaceSexCell(df[i].cells[r])]]
        ELSE df[i]]

\* the indicator columns pandas makes of one column: one per level, in sorted
\* order, named <column>_<level>, the first level dropped under drop_first
DummyColumns(col, drop_first) ==
    LET levels == SortLevels({ col.cells[r] : r \in DOMAIN col.cells } \ {NaN})
        kept == IF drop_first /\ levels # << >> THEN Tail(levels) ELSE levels
    IN [j \in DOMAIN kept |->
          [name |-> col.name \o "_" \o PyStr(kept[j]), origin |-> col.name, dtype |-> "bool",
           cells |-> [r \in DOMAIN col.cells |-> BoolV(col.cells[r] = kept[j])]]]

\* pd.get_dummies(df, columns=columns, drop_first=drop_first): the other columns
\* first, in their order, then the indicators of each encoded column
GetDummies(df, columns, drop_first) ==
    SelectSeq(df, LAMBDA c : ~Contains(columns, c.name))
    \o Concat([i \in DOMAIN columns |-> DummyColumns(Column(df, columns[i]), drop_first)])

-----------------------------------------------------------------------------
(* src/model.py 5: feature selection *)

\* line 102
SelectFeatures(df, initial_features) ==
    SelectSeq(Names(df), LAMBDA col : Contains(initial_features, col)
                                      \/ StartsWith(col, "thal_") \/ StartsWith(col, "cp_"))

\* line 108: X.replace('?', np.nan)
ReplaceUnknown(v) == IF v.k = "str" /\ v.s = "?" THEN NaN ELSE v

\* lines 104-108: X = data[...].replace('?', np.nan).dropna(); index holds the
\* labels (row numbers) of the rows that are left
FeatureMatrix(df, features) ==
    LET names == SelectSeq(features, LAMBDA col : col # TARGET_FEATURE)
        cols == [i \in DOMAIN names |-> Column(df, names[i])]
        complete(r) == \A i \in DOMAIN cols : ~IsNull(ReplaceUnknown(cols[i].cells[r]))
        kept == SelectSeq([r \in 1..NRows(df) |-> r], complete)
    IN [index |-> kept,
        cols |-> [i \in DOMAIN cols |->
                    [cols[i] EXCEPT !.cells = [j \in DOMAIN kept |-> ReplaceUnknown(cols[i].cells[kept[j]])]]]]

EmptyMatrix == [index |-> << >>, cols |-> << >>]

-----------------------------------------------------------------------------
(* The classifier.  The forest of scikit-learn is not part of the repository;  *)
(* a fitted model is taken to be one decision stump over the first feature,    *)
(* with the class-1 probability (in percent) of each leaf.                     *)

NoModel == [feat |-> 0, thr |-> 0, le |-> 0, gt |-> 0]

\* model.fit(X_train, y_train): one of the stumps a fit may produce
FittedModels(Xm) == { [feat |-> 1, thr |-> 5, le |-> p, gt |-> 100 - p] : p \in {20, 80} }

\* train_test_split and fit raise on fewer than two rows or on no column
CanFit(Xm) == Len(Xm.index) >= 2 /\ Len(Xm.cols) >= 1

-----------------------------------------------------------------------------
(* The predictor, src/app.py *)

ORIGINAL_INPUT_FEATURES == << "age", "sex", "cp", "trestbps", "chol", "fbs", "restecg",
                              "thalach", "exang", "oldpeak", "slope", "ca", "thal" >>

CATEGORICAL_COLS == << "cp", "restecg", "slope", "ca", "thal" >>

\* what render_template is given: prediction_result, the probability (percent)
\* written into prediction_message, error; fault says an exception left predict
NoResponse == [prediction_result |-> "", probability |-> -1, error |-> "", fault |-> FALSE]

Handled(r) == r # NoResponse

\* line 40: pd.DataFrame([data_dict], columns=ORIGINAL_INPUT_FEATURES); a field
\* the record lacks is NaN
InputFrame(data_dict) ==
    [i \in DOMAIN ORIGINAL_INPUT_FEATURES |->
        [name |-> ORIGINAL_INPUT_FEATURES[i], origin |-> "", dtype |-> "object",
         cells |-> << IF ORIGINAL_INPUT_FEATURES[i] \in DOMAIN data_dict
                      THEN StrV(data_dict[ORIGINAL_INPUT_FEATURES[i]])
                      ELSE NaN >>]]

\* lines 43-50: pd.to_numeric(..., errors='coerce') on every column
CoerceNumeric(df) ==
    [i \in DOMAIN df |-> [df[i] EXCEPT !.cells = << ToNumeric(df[i].cells[1]) >>, !.dtype = "number"]]

\* lines 58-60: astype(str) on the categorical columns
CategoricalToStr(df) ==
    [i \in DOMAIN df |->
        IF Contains(CATEGORICAL_COLS, df[i].name)
        THEN [df[i] EXCEPT !.cells = << StrV(PyStr(df[i].cells[1])) >>, !.dtype = "object"]
        ELSE df[i]]

\* lines 40-62: input_encoded
EncodeInput(data_dict) ==
    GetDummies(CategoricalToStr(CoerceNumeric(InputFrame(data_dict))), CATEGORICAL_COLS, FALSE)

\* lines 69-71: the loop over input_encoded.columns, from its i-th iteration on;
\* final_input is the row of the frame, one value per saved column
RECURSIVE FillFinalInput(_, _, _, _)
FillFinalInput(i, input_encoded, features, final_input) ==
    IF i > Len(input_encoded) THEN final_input
    ELSE LET col == input_encoded[i].name
         IN FillFinalInput(i + 1, input_encoded, features,
                IF Contains(features, col)
                THEN [j \in DOMAIN final_input |->
                        IF features[j] = col THEN input_encoded[i].cells[1] ELSE final_input[j]]
                ELSE final_input)


\* an alignment that selects the saved columns of the encoded row instead of
\* filling a row of zeros
AlignInputBySelection(input_encoded, features) ==
    LET present == SelectSeq(input_encoded, LAMBDA c : Contains(features, c.name))
    IN [j \in DOMAIN present |-> present[j].cells[1]]

\* lines 66-74: final_input.values
AlignInput(input_encoded, features) ==
    FillFinalInput(1, input_encoded, features, [j \in DOMAIN features |-> IntV(0)])

\* lines 33-74
preprocess_input(data_dict, features) == AlignInput(EncodeInput(data_dict), features)

\* model.predict / model.predict_proba reject a NaN unless the forest accepts it
PredictRaises(row, allowsNaN) == (\E j \in DOMAIN row : IsNull(row[j])) /\ ~allowsNaN

\* model.predict_proba(input_array)[0][1], in percent
PredictProba(m, row) ==
    IF IsNull(row[m.feat]) \/ row[m.feat].n <= m.thr THEN m.le ELSE m.gt

\* model.predict(input_array)[0]
PredictClass(m, row) == IF PredictProba(m, row) > 50 THEN 1 ELSE 0


\* predict without its try/except: the exception of the model leaves the handler
RenderUncaught(m, row, allowsNaN) ==
    IF PredictRaises(row, allowsNaN)
    THEN [prediction_result |-> "", probability |-> -1, error |-> "", fault |-> TRUE]
    ELSE IF PredictClass(m, row) = 1
    THEN [prediction_result |-> "POSSIBLE HEART DISEASE", probability |-> PredictProba(m, row),
          error |-> "", fault |-> FALSE]
    ELSE [prediction_result |-> "NO HEART DISEASE DETECTED", probability |-> 100 - PredictProba(m, row),
          error |-> "", fault |-> FALSE]

\* lines 90-122: what predict renders for input_array
Render(m, row, allowsNaN) ==
    IF PredictRaises(row, allowsNaN)
    THEN [prediction_result |-> "", probability |-> -1, error |-> "ValueError", fault |-> FALSE]
    ELSE IF PredictClass(m, row) = 1
    THEN [prediction_result |-> "POSSIBLE HEART DISEASE", probability |-> PredictProba(m, row),
          error |-> "", fault |-> FALSE]
    ELSE [prediction_result |-> "NO HEART DISEASE DETECTED", probability |-> 100 - PredictProba(m, row),
          error |-> "", fault |-> FALSE]

\* The request records: every field "1", but for one field, which is absent or
\* holds another text; and the record with no field at all
BaseRequest == [f \in Range(ORIGINAL_INPUT_FEATURES) |-> "1"]

EmptyRequest == [f \in {} |-> ""]

OddTexts == { "0", "2.0", NatToStr(MaxCode), "abc" }

FormRequests ==
    { BaseRequest, EmptyRequest }
    \cup { [g \in (DOMAIN BaseRequest) \ {f} |-> BaseRequest[g]] : f \in DOMAIN BaseRequest }
    \cup { [BaseRequest EXCEPT ![f] = t] : <<f, t>> \in (DOMAIN BaseRequest) \X OddTexts }

\* the 13 raw field values of row r of heart.csv
RowRequest(r) ==
    [f \in { c.name : c \in Range(csvFile.cols) } \cap Range(ORIGINAL_INPUT_FEATURES) |->
        (CHOOSE c \in Range(csvFile.cols) : c.name = f).cells[r]]

Requests == FormRequests \cup { RowRequest(r) : r \in Range(X.index) }

-----------------------------------------------------------------------------
(* The files the runs start from *)

NoCsv == [exists |-> FALSE, cols |-> << >>]

CellText(pattern, r) == pattern[((r - 1) % Len(pattern)) + 1]

RawColumn(name, pattern) == [name |-> name, cells |-> [r \in 1..MaxRows |-> CellText(pattern, r)]]

Plain == << "1", "0" >>

CanonicalHeader == EXPECTED_FEATURES \o << TARGET_FEATURE >>

AllAliases == UNION { Range(COL_MAPPING(c)) : c \in Range(CanonicalHeader) }

ColumnNames == Range(CanonicalHeader) \cup AllAliases \cup {"id"}

PlainTable(header) == [exists |-> TRUE, cols |-> [i \in DOMAIN header |-> RawColumn(header[i], Plain)]]

\* one deviation of a header: a column dropped, a column named by one of its
\* aliases, a column added at the end
HeaderEdits(h) ==
    { RemoveAt(h, i) : i \in DOMAIN h }
    \cup { [h EXCEPT ![i] = a] : <<i, a>> \in { <<i, a>> \in (DOMAIN h) \X AllAliases :
                                        Contains(COL_MAPPING(h[i]), a) /\ ~Contains(h, a) } }
    \cup { Append(h, nm) : nm \in ColumnNames \ Range(h) }

RECURSIVE HeadersWithin(_)
HeadersWithin(k) ==
    IF k = 0 THEN { CanonicalHeader }
    ELSE LET H == HeadersWithin(k - 1) IN H \cup UNION { HeaderEdits(h) : h \in H }

\* the cells of a column that does not hold plain codes: higher codes, a gap,
\* the '?' of the UCI files, words, and for sex its labels
OddProfiles(name) ==
    { << NatToStr(MaxCode), "2" >>, << "1", "" >>, << NatToStr(MaxCode), "?", "1" >>, << "a", "b" >> }
    \cup (IF name = "sex" THEN { << "Male", "Female" >>, << "M", "F" >> } ELSE {})

IsPlain(col) == col = RawColumn(col.name, Plain)

OddEdits(t, names) ==
    { [t EXCEPT !.cols[i] = RawColumn(t.cols[i].name, p)] :
        <<i, p>> \in { <<i, p>> \in (DOMAIN t.cols) \X UNION { OddProfiles(nm) : nm \in names } :
                         /\ t.cols[i].name \in names
                         /\ IsPlain(t.cols[i])
                         /\ p \in OddProfiles(t.cols[i].name) } }

RECURSIVE OddTables(_, _)
OddTables(names, k) ==
    IF k = 0 THEN { PlainTable(CanonicalHeader) }
    ELSE LET T == OddTables(names, k - 1) IN T \cup UNION { OddEdits(t, names) : t \in T }

TrainerCsvFiles ==
    {NoCsv} \cup { PlainTable(h) : h \in HeadersWithin(MaxHeaderEdits) }
            \cup OddTables(Range(EXPECTED_FEATURES), MaxOddCols)

\* the service is run on the plain table and on the tables with one odd column
\* among sex, cp and thal
ServiceCsvFiles ==
    { NoCsv, PlainTable(CanonicalHeader) } \cup OddEdits(PlainTable(CanonicalHeader), {"sex", "cp", "thal"})

NoPkl == [exists |-> FALSE, keys |-> {}, model |-> NoModel, features |-> << >>]

\* what may lie at heart_disease_model.pkl before the trainer has run: nothing,
\* or a dictionary that lacks a key
StalePklFiles == {NoPkl} \cup { [exists |-> TRUE, keys |-> K, model |-> NoModel, features |-> << >>] :
                                 K \in {{}, {"model"}, {"features"}} }

-----------------------------------------------------------------------------
(* The trainer, src/model.py *)

TrainerInit ==
    /\ pc = "start"
    /\ exit_status = -1
    /\ data = << >>
    /\ actual_target = ""
    /\ final_features = << >>
    /\ missing_features = << >>
    /\ string_cols = << >>
    /\ X = EmptyMatrix
    /\ trained = NoModel

\* lines 27-32
LoadDataset ==
    /\ pc = "start"
    /\ IF csvFile.exists
       THEN /\ data' = ReadCsv(csvFile.cols)
            /\ pc' = "loaded"
            /\ UNCHANGED exit_status
       ELSE /\ pc' = "exit_no_file"
            /\ exit_status' = 1
            /\ UNCHANGED data
    /\ UNCHANGED << actual_target, final_features, missing_features, string_cols, X, trained >>
    /\ UNCHANGED << csvFile, pklFile, sklearnAllowsNaN >>
    /\ UNCHANGED appVars


\* the label mapping without its exit: the script goes on without a label
MapTargetWithoutExit ==
    /\ pc = "loaded"
    /\ actual_target' = FindTarget(data)
    /\ data' = IF actual_target' \notin {"", TARGET_FEATURE}
                 THEN Rename(data, actual_target', TARGET_FEATURE)
                 ELSE data
    /\ pc' = "target_mapped"
    /\ UNCHANGED << exit_status, final_features, missing_features, string_cols, X, trained >>
    /\ UNCHANGED << csvFile, pklFile, sklearnAllowsNaN >>
    /\ UNCHANGED appVars

\* lines 38-52
MapTarget ==
    /\ pc = "loaded"
    /\ actual_target' = FindTarget(data)
    /\ IF actual_target' = ""
       THEN /\ pc' = "exit_no_target"
            /\ exit_status' = 1
            /\ UNCHANGED data
       ELSE /\ data' = IF actual_target' # TARGET_FEATURE
                         THEN Rename(data, actual_target', TARGET_FEATURE)
                         ELSE data
            /\ pc' = "target_mapped"
            /\ UNCHANGED exit_status
    /\ UNCHANGED << final_features, missing_features, string_cols, X, trained >>
    /\ UNCHANGED << csvFile, pklFile, sklearnAllowsNaN >>
    /\ UNCHANGED appVars

\* lines 56-77
MapFeatures ==
    /\ pc = "target_mapped"
    /\ LET r == MapFeatureColumns(1, data, << >>, << >>)
       IN /\ data' = r.data
          /\ final_features' = r.final_features
          /\ missing_features' = r.missing_features
          /\ IF r.missing_features # << >>
             THEN pc' = "exit_missing_features" /\ exit_status' = 1
             ELSE pc' = "features_mapped" /\ UNCHANGED exit_status
    /\ UNCHANGED << actual_target, string_cols, X, trained >>
    /\ UNCHANGED << csvFile, pklFile, sklearnAllowsNaN >>
    /\ UNCHANGED appVars

\* lines 85-97
EncodeData ==
    /\ pc = "features_mapped"
    /\ string_cols' = ObjectColumns(data)
    /\ data' = GetDummies(IF Contains(string_cols', "sex") THEN ReplaceSex(data) ELSE data,
                          string_cols', TRUE)
    /\ pc' = "encoded"
    /\ UNCHANGED << exit_status, actual_target, final_features, missing_features, X, trained >>
    /\ UNCHANGED << csvFile, pklFile, sklearnAllowsNaN >>
    /\ UNCHANGED appVars

\* lines 101-109; data[TARGET_FEATURE] raises KeyError when the label was encoded
PrepareData ==
    /\ pc = "encoded"
    /\ final_features' = SelectFeatures(data, final_features)
    /\ IF HasColumn(data, TARGET_FEATURE)
       THEN /\ X' = FeatureMatrix(data, final_features')
            /\ pc' = "prepared"
            /\ UNCHANGED exit_status
       ELSE /\ pc' = "exit_crash"
            /\ exit_status' = 1
            /\ UNCHANGED X
    /\ UNCHANGED << data, actual_target, missing_features, string_cols, trained >>
    /\ UNCHANGED << csvFile, pklFile, sklearnAllowsNaN >>
    /\ UNCHANGED appVars

\* lines 114-118
FitModel ==
    /\ pc = "prepared"
    /\ IF CanFit(X)
       THEN /\ trained' \in FittedModels(X)
            /\ pc' = "fitted"
            /\ UNCHANGED exit_status
       ELSE /\ pc' = "exit_crash"
            /\ exit_status' = 1
            /\ UNCHANGED trained
    /\ UNCHANGED << data, actual_target, final_features, missing_features, string_cols, X >>
    /\ UNCHANGED << csvFile, pklFile, sklearnAllowsNaN >>
    /\ UNCHANGED appVars

\* lines 121-135
SaveModel ==
    /\ pc = "fitted"
    /\ pklFile' = [exists |-> TRUE, keys |-> {"model", "features"},
                   model |-> trained, features |-> Names(X.cols)]
    /\ pc' = "done"
    /\ exit_status' = 0
    /\ UNCHANGED << data, actual_target, final_features, missing_features, string_cols, X, trained >>
    /\ UNCHANGED << csvFile, sklearnAllowsNaN >>
    /\ UNCHANGED appVars

AppDown ==
    /\ app = "import"
    /\ app_exit = -1
    /\ model = NoModel
    /\ TRAINING_FEATURES = << >>
    /\ form_data = << >>
    /\ input_array = << >>
    /\ response = NoResponse

InitTrainer ==
    /\ csvFile \in TrainerCsvFiles
    /\ pklFile = NoPkl
    /\ sklearnAllowsNaN = FALSE
    /\ TrainerInit
    /\ AppDown

NextTrainer ==
    \/ LoadDataset
    \/ MapTarget
    \/ MapFeatures
    \/ EncodeData
    \/ PrepareData
    \/ FitModel
    \/ SaveModel

SpecTrainer == InitTrainer /\ [][NextTrainer]_vars


\* a startup that reads the keys with .get(): a missing key does not stop it
StartupWithoutKeyCheck ==
    /\ app = "import"
    /\ IF ~pklFile.exists
       THEN /\ app' = "exit"
            /\ app_exit' = 1
            /\ UNCHANGED << model, TRAINING_FEATURES >>
       ELSE /\ app' = "serving"
            /\ model' = pklFile.model
            /\ TRAINING_FEATURES' = pklFile.features
            /\ UNCHANGED app_exit
    /\ UNCHANGED << form_data, input_array, response >>
    /\ UNCHANGED << csvFile, pklFile, sklearnAllowsNaN >>
    /\ UNCHANGED trainerVars

\* lines 10-23
Startup ==
    /\ app = "import"
    /\ IF ~pklFile.exists
       THEN /\ app' = "exit"
            /\ app_exit' = 1
            /\ UNCHANGED << model, TRAINING_FEATURES >>
       ELSE IF "model" \notin pklFile.keys
       THEN /\ app' = "exit"
            /\ app_exit' = 1
            /\ UNCHANGED << model, TRAINING_FEATURES >>
       ELSE IF "features" \notin pklFile.keys
       THEN /\ app' = "exit"
            /\ app_exit' = 1
            /\ model' = pklFile.model
            /\ UNCHANGED TRAINING_FEATURES
       ELSE /\ app' = "serving"
            /\ model' = pklFile.model
            /\ TRAINING_FEATURES' = pklFile.features
            /\ UNCHANGED app_exit
    /\ UNCHANGED << form_data, input_array, response >>
    /\ UNCHANGED << csvFile, pklFile, sklearnAllowsNaN >>
    /\ UNCHANGED trainerVars


\* a handler that adds the encoded columns it has not seen to the saved list
PredictExtendingFeatures ==
    /\ app = "serving"
    /\ \E req \in Requests :
        /\ form_data' = req
        /\ input_array' = preprocess_input(req, TRAINING_FEATURES)
        /\ response' = Render(model, input_array', sklearnAllowsNaN)
        /\ TRAINING_FEATURES' = TRAINING_FEATURES
              \o SelectSeq(Names(EncodeInput(req)), LAMBDA col : ~Contains(TRAINING_FEATURES, col))
    /\ UNCHANGED << app, app_exit, model >>
    /\ UNCHANGED << csvFile, pklFile, sklearnAllowsNaN >>
    /\ UNCHANGED trainerVars

\* lines 83-122
Predict ==
    /\ app = "serving"
    /\ \E req \in Requests :
        /\ form_data' = req
        /\ input_array' = preprocess_input(req, TRAINING_FEATURES)
        /\ response' = Render(model, input_array', sklearnAllowsNaN)
    /\ UNCHANGED << app, app_exit, model, TRAINING_FEATURES >>
    /\ UNCHANGED << csvFile, pklFile, sklearnAllowsNaN >>
    /\ UNCHANGED trainerVars

Init ==
    /\ csvFile \in ServiceCsvFiles
    /\ pklFile \in StalePklFiles
    /\ sklearnAllowsNaN \in BOOLEAN
    /\ TrainerInit
    /\ AppDown

Next ==
    \/ LoadDataset
    \/ MapTarget
    \/ MapFeatures
    \/ EncodeData
    \/ PrepareData
    \/ FitModel
    \/ SaveModel
    \/ Startup
    \/ Predict

Spec == Init /\ [][Next]_vars

-----------------------------------------------------------------------------
(* src/model.py 3a, 3b as one function of the file's columns: where the     *)
(* script stands after the mapping, with data and missing_features          *)

ReconcileOutcome(cols) ==
    LET df == ReadCsv(cols)
        t == FindTarget(df)
        r == MapFeatureColumns(1, IF t # TARGET_FEATURE THEN Rename(df, t, TARGET_FEATURE) ELSE df,
                               << >>, << >>)
    IN IF t = "" THEN [pc |-> "exit_no_target", data |-> df, missing_features |-> << >>]
       ELSE [pc |-> IF r.missing_features # << >> THEN "exit_missing_features" ELSE "features_mapped",
             data |-> r.data, missing_features |-> r.missing_features]

-----------------------------------------------------------------------------
(* What the claims speak of *)

CsvNames == [i \in DOMAIN csvFile.cols |-> csvFile.cols[i].name]

Present(nm) == \E i \in DOMAIN CsvNames : CsvNames[i] = nm

\* neither the canonical name nor any of its aliases is a column of the file
Unresolved(c) == ~Present(c) /\ \A j \in DOMAIN COL_MAPPING(c) : ~Present(COL_MAPPING(c)[j])

\* a is the alias the mapping must take for c: c itself is absent and a is the
\* first alias of c, in alias-table order, that is present
ChosenAlias(c, a) ==
    /\ ~Present(c)
    /\ \E j \in DOMAIN COL_MAPPING(c) :
          /\ COL_MAPPING(c)[j] = a
          /\ Present(a)
          /\ \A j2 \in 1..(j - 1) : ~Present(COL_MAPPING(c)[j2])

\* the name column i of the file must bear once the names in C are mapped
MappedName(i, C) ==
    IF \E c \in C : ChosenAlias(c, CsvNames[i])
    THEN CHOOSE c \in C : ChosenAlias(c, CsvNames[i])
    ELSE CsvNames[i]

MappedAs(df, C) ==
    /\ Len(df) = Len(csvFile.cols)
    /\ \A i \in DOMAIN df : /\ df[i].name = MappedName(i, C)
                            /\ df[i].cells = ReadColumn(csvFile.cols[i]).cells

UnresolvedFeatures == SelectSeq(EXPECTED_FEATURES, Unresolved)

\* c is absent and a is the one alias of c among the columns of the file
SingleAlias(c, a) ==
    /\ ~Present(c)
    /\ Present(a)
    /\ Contains(COL_MAPPING(c), a)
    /\ \A j \in DOMAIN COL_MAPPING(c) : COL_MAPPING(c)[j] # a => ~Present(COL_MAPPING(c)[j])

\* the file with column a named c
NamedCanonically(c, a) ==
    [i \in DOMAIN csvFile.cols |->
        IF csvFile.cols[i].name = a THEN [csvFile.cols[i] EXCEPT !.name = c] ELSE csvFile.cols[i]]

Mapped == pc \in {"exit_no_target", "exit_missing_features", "features_mapped"}

SameNumber(a, b) == IsNumber(a) /\ IsNumber(b) /\ a.n = b.n

OmitsAField(req) == \E f \in Range(ORIGINAL_INPUT_FEATURES) : f \notin DOMAIN req

IsSuccess(r) ==
    /\ r.prediction_result \in {"POSSIBLE HEART DISEASE", "NO HEART DISEASE DETECTED"}
    /\ r.probability \in 0..100
    /\ r.error = ""

IsError(r) == r.error # "" /\ r.prediction_result = "" /\ r.probability = -1

-----------------------------------------------------------------------------
(* The claims *)

\* C1: the row preprocess_input returns has the length and the column order of
\* the saved feature list; a saved column the encoded request row has carries
\* that row's value, a saved column it lacks is 0, and the encoded columns that
\* are not saved are not in it.
C1_AlignedToSavedList ==
    Handled(response) =>
        LET enc == EncodeInput(form_data)
        IN /\ Len(input_array) = Len(TRAINING_FEATURES)
           /\ \A j \in DOMAIN TRAINING_FEATURES :
                 input_array[j] = IF HasColumn(enc, TRAINING_FEATURES[j])
                                  THEN Column(enc, TRAINING_FEATURES[j]).cells[1]
                                  ELSE IntV(0)

\* a request was aligned to a list that holds an indicator column the request
\* has (copied), an indicator column it lacks (zero), while the request has
\* indicator columns the list lacks (discarded)
C1_Witness ==
    /\ Handled(response)
    /\ \E j \in DOMAIN TRAINING_FEATURES :
          /\ HasColumn(EncodeInput(form_data), TRAINING_FEATURES[j])
          /\ input_array[j] = BoolV(TRUE)
    /\ \E j \in DOMAIN TRAINING_FEATURES :
          /\ ~HasColumn(EncodeInput(form_data), TRAINING_FEATURES[j])
          /\ input_array[j] = IntV(0)
    /\ \E c \in Range(EncodeInput(form_data)) : ~Contains(TRAINING_FEATURES, c.name)

\* C2: a training row the trainer kept, sent as a request to the service that
\* loaded the artifact of that training run, gives the feature vector the model
\* consumed for that row, column for column.
C2_RoundTrip ==
    (pc = "done" /\ app = "serving" /\ Handled(response)) =>
        \A j \in DOMAIN X.index :
            form_data = RowRequest(X.index[j]) =>
                /\ Len(input_array) = Len(X.cols)
                /\ \A i \in DOMAIN X.cols : SameNumber(input_array[i], X.cols[i].cells[j])

\* C3: a handled request rendered either a label with a probability or an
\* error message, never both, no exception left predict, and the service is
\* still serving.
C3_SuccessOrError ==
    Handled(response) =>
        /\ app = "serving"
        /\ ~response.fault
        /\ (IsSuccess(response) /\ ~IsError(response)) \/ (IsError(response) /\ ~IsSuccess(response))

\* a request failed inside predict and was answered with the error message
C3_Witness == app = "serving" /\ Handled(response) /\ IsError(response)

\* C4: the label and every feature are resolved on their own: the canonical
\* name if present (no alias is renamed then), else the first alias present, in
\* alias-table order, which is renamed; the script exits exactly when the label
\* or a feature is unresolved, and missing_features lists every unresolved
\* feature.
C4_Resolution ==
    /\ pc = "exit_no_target" => Unresolved(TARGET_FEATURE)
    /\ pc = "target_mapped" => ~Unresolved(TARGET_FEATURE) /\ MappedAs(data, {TARGET_FEATURE})
    /\ pc = "exit_missing_features" =>
          /\ ~Unresolved(TARGET_FEATURE)
          /\ UnresolvedFeatures # << >>
          /\ missing_features = UnresolvedFeatures
          /\ MappedAs(data, Range(CanonicalHeader))
    /\ pc = "features_mapped" =>
          /\ ~Unresolved(TARGET_FEATURE)
          /\ UnresolvedFeatures = << >>
          /\ missing_features = << >>
          /\ final_features = EXPECTED_FEATURES
          /\ MappedAs(data, Range(CanonicalHeader))
    /\ pc \in {"encoded", "prepared", "fitted", "done", "exit_crash"} =>
          ~Unresolved(TARGET_FEATURE) /\ UnresolvedFeatures = << >>

\* the script stopped on two or more unresolved features, one of them a feature
\* that has aliases
C4_Witness ==
    /\ pc = "exit_missing_features"
    /\ Len(missing_features) >= 2
    /\ \E i \in DOMAIN missing_features : COL_MAPPING(missing_features[i]) # << >>

\* C5: when a field that has aliases stands in the file under one alias only,
\* the mapping ends as it ends on the file that names the field canonically:
\* same position of the script, same missing_features and, unless the script
\* stopped on the label before it mapped any feature, the same table: same
\* columns in the same order with the same cells.
C5_AliasAsCanonical ==
    Mapped =>
        \A c \in Range(CanonicalHeader) : \A a \in Range(COL_MAPPING(c)) :
            SingleAlias(c, a) =>
                LET canonical == ReconcileOutcome(NamedCanonically(c, a))
                IN /\ canonical.pc = pc
                   /\ canonical.missing_features = missing_features
                   /\ pc # "exit_no_target" => canonical.data = data

\* a file with a field under a single alias, not the last column, was mapped
C5_Witness ==
    /\ pc = "features_mapped"
    /\ \E c \in Range(EXPECTED_FEATURES) : \E a \in Range(COL_MAPPING(c)) :
          SingleAlias(c, a) /\ CsvNames[Len(CsvNames)] # a

\* C6: a request that lacks one of the 13 fields is answered with the error
\* message.
C6_MissingFieldIsError ==
    (Handled(response) /\ OmitsAField(form_data)) => IsError(response)

\* C7: the saved feature list is the list of the columns of the encoded table,
\* in table order, that are a canonical feature left unencoded or an indicator
\* column made of a canonical feature.
C7_SavedFeatureList ==
    pc = "done" =>
        pklFile.features =
            SelectSeq(Names(data),
                      LAMBDA nm : LET col == Column(data, nm)
                                  IN \/ col.origin = "" /\ Contains(EXPECTED_FEATURES, nm)
                                     \/ Contains(EXPECTED_FEATURES, col.origin))

\* C8: the import of app.py ends serving with the model and the feature list of
\* the artifact when the file is there with both keys, and otherwise ends with
\* exit status 1; a request is handled only by a serving process.
C8_StartupStep ==
    (app = "import" /\ app' # "import") =>
        IF pklFile.exists /\ {"model", "features"} \subseteq pklFile.keys
        THEN app' = "serving" /\ model' = pklFile.model /\ TRAINING_FEATURES' = pklFile.features
        ELSE app' = "exit" /\ app_exit' = 1

C8_NoPartialStart ==
    /\ [][C8_StartupStep]_vars
    /\ [](Handled(response) => app = "serving")
    /\ [](app = "exit" => app_exit = 1 /\ ~Handled(response))

\* the artifact file was there without one of its keys and the process exited
C8_Witness == app = "exit" /\ app_exit = 1 /\ pklFile.exists /\ pklFile.keys # {"model", "features"}

\* C9: when heart.csv is missing, or the label or a feature is unresolved, the
\* script never gets past the mapping, exits with status 1, fits nothing and
\* writes no artifact; a fitted model or a written artifact means the file was
\* there and everything was resolved.
C9_AbortBeforeFit ==
    LET abort == \/ ~csvFile.exists
                 \/ Unresolved(TARGET_FEATURE)
                 \/ \E c \in Range(EXPECTED_FEATURES) : Unresolved(c)
    IN /\ abort =>
            /\ pc \in {"start", "loaded", "target_mapped",
                       "exit_no_file", "exit_no_target", "exit_missing_features"}
            /\ trained = NoModel
            /\ pklFile \in StalePklFiles
       /\ pc \in {"exit_no_file", "exit_no_target", "exit_missing_features"} =>
            abort /\ exit_status = 1
       /\ (trained # NoModel \/ pklFile \notin StalePklFiles) =>
            ~abort /\ pc \in {"fitted", "done"}
       /\ pc = "done" => exit_status = 0

\* the script exited on an unresolved label
C9_Witness == pc = "exit_no_target" /\ exit_status = 1 /\ trained = NoModel /\ pklFile \in StalePklFiles

\* C10: a serving process holds the model and the feature list of the artifact
\* it loaded, whatever requests it has handled, and what the last request
\* rendered is what that request renders on the loaded artifact.
C10_ArtifactUntouched ==
    app = "serving" =>
        /\ model = pklFile.model
        /\ TRAINING_FEATURES = pklFile.features
        /\ Handled(response) =>
              /\ input_array = preprocess_input(form_data, pklFile.features)
              /\ response = Render(pklFile.model, input_array, sklearnAllowsNaN)

\* a serving process answered a request with the positive label
C10_Witness == app = "serving" /\ IsSuccess(response) /\ response.prediction_result = "POSSIBLE HEART DISEASE"

====
